---- MODULE Spec2Model ----
(***************************************************************************)
(* A model of the Redis TLS proxy: the RESP command scanner                *)
(* (parse_commands and its helpers), the shared command statistics         *)
(* (Stats), the bidirectional relay loop (proxy_connection) and the        *)
(* per-connection tasks spawned by the accept loop (run_plain_server,      *)
(* run_tls_server).                                                        *)
(*                                                                         *)
(* A byte is a one-symbol string; "CR" and "LF" are the bytes 13 and 10,   *)
(* "xFF" is a byte that is not valid UTF-8.  A buffer is a sequence of     *)
(* bytes.  Offsets into buffers are 0-based as in the source, so the byte  *)
(* at offset p of buf is buf[p + 1].                                       *)
(***************************************************************************)
EXTENDS Integers, Sequences, FiniteSets, TLC

\* ------------------------------------------------------------------------
\* Bounds of the model
\* ------------------------------------------------------------------------

\* Largest number of frames laid out in a scanned buffer.
MaxFrames == 2

\* Number of connection tasks.
NConns == 2

\* Largest number of record_command calls made in a run of SpecStats.
MaxCalls == 3

\* Largest number of reads that return data, over all connections and both
\* sides, in a run of Spec.
MaxReads == 2

\* Bytes a transport holds in one direction before a write to it blocks.
PipeCap == 3

\* Bytes the client of the connection with bounded transports sends.
MaxSent == 9

\* ------------------------------------------------------------------------
\* Bytes and text
\* ------------------------------------------------------------------------

DigitChars == <<"0", "1", "2", "3", "4", "5", "6", "7", "8", "9">>

IsDigit(b) == \E i \in 1..10 : DigitChars[i] = b

DigitVal(b) == CHOOSE v \in 0..9 : DigitChars[v + 1] = b

CRLF == <<"CR", "LF">>

\* Option::None of the source, for offsets and parsed values.
None == -1

\* buf[a..b] of the source (0-based, b exclusive).
Slice(buf, a, b) == SubSeq(buf, a + 1, b)

\* buf[a..] of the source.
From(buf, a) == SubSeq(buf, a + 1, Len(buf))

\* String::from_utf8_lossy: valid text is kept, an invalid byte becomes
\* U+FFFD.
LossyChar(b) == IF b = "xFF" THEN "U+FFFD" ELSE b

from_utf8_lossy(bytes) == [i \in 1..Len(bytes) |-> LossyChar(bytes[i])]

LowerChars == <<"a", "b", "e", "g", "k", "s", "t">>
UpperChars == <<"A", "B", "E", "G", "K", "S", "T">>

\* char::to_uppercase on the letters used here; every other symbol (a
\* capital, a digit, punctuation, U+FFFD) is its own uppercase.
UpperChar(ch) ==
    IF \E i \in 1..Len(LowerChars) : LowerChars[i] = ch
    THEN UpperChars[CHOOSE i \in 1..Len(LowerChars) : LowerChars[i] = ch]
    ELSE ch

\* Mutant of to_uppercase: the name is used as the key as it is.
to_uppercase_identity(name) == name

\* str::to_uppercase.
to_uppercase(name) == [i \in 1..Len(name) |-> UpperChar(name[i])]

\* std::str::from_utf8(..).ok(): fails on a byte that is not UTF-8.
IsUtf8(bytes) == \A i \in 1..Len(bytes) : bytes[i] # "xFF"

\* ------------------------------------------------------------------------
\* The scanner's helpers
\* ------------------------------------------------------------------------

\* find_crlf: offset of the first CR LF of buf, or None.
find_crlf(buf) ==
    LET hits == {i \in 0..(Len(buf) - 2) : buf[i + 1] = "CR" /\ buf[i + 2] = "LF"}
    IN  IF hits = {} THEN None
        ELSE CHOOSE i \in hits : \A j \in hits : i <= j

RECURSIVE DecVal(_)
\* Value of a non-empty string of decimal digits.
DecVal(s) ==
    IF Len(s) = 1 THEN DigitVal(s[1])
    ELSE 10 * DecVal(SubSeq(s, 1, Len(s) - 1)) + DigitVal(s[Len(s)])

\* str::parse::<i64>: an optional sign, then one or more decimal digits.
\* (A value outside i64 is an error as well; that takes 19 digits, more
\* than any field of the buffers scanned here.)
ParseI64Ok(s) ==
    LET digits == IF Len(s) > 0 /\ s[1] \in {"+", "-"} THEN Tail(s) ELSE s
    IN  /\ Len(digits) > 0
        /\ \A i \in 1..Len(digits) : IsDigit(digits[i])

ParseI64(s) ==
    IF s[1] = "-" THEN 0 - DecVal(Tail(s))
    ELSE IF s[1] = "+" THEN DecVal(Tail(s))
    ELSE DecVal(s)

\* Mutant of parse_integer: the bytes taken are counted one too many.
parse_integer_one_more(buf) ==
    LET crlf_pos == find_crlf(buf)
        num_str == Slice(buf, 0, crlf_pos)
    IN  IF crlf_pos = None THEN [ok |-> FALSE, num |-> 0, consumed |-> 0]
        ELSE IF ~IsUtf8(num_str) \/ ~ParseI64Ok(num_str)
             THEN [ok |-> FALSE, num |-> 0, consumed |-> 0]
        ELSE [ok |-> TRUE, num |-> ParseI64(num_str), consumed |-> crlf_pos + 3]

\* parse_integer: the integer before the first CR LF and the bytes taken
\* including the CR LF, or ok = FALSE (None).
parse_integer(buf) ==
    LET crlf_pos == find_crlf(buf)
        num_str == Slice(buf, 0, crlf_pos)
    IN  IF crlf_pos = None THEN [ok |-> FALSE, num |-> 0, consumed |-> 0]
        ELSE IF ~IsUtf8(num_str) \/ ~ParseI64Ok(num_str)
             THEN [ok |-> FALSE, num |-> 0, consumed |-> 0]
        ELSE [ok |-> TRUE, num |-> ParseI64(num_str), consumed |-> crlf_pos + 2]

\* Position of the first space of line, or Len(line) when it has none:
\* line.iter().position(|&b| b == b' ').unwrap_or(line.len()).
FirstSpace(line) ==
    LET sp == {i \in 0..(Len(line) - 1) : line[i + 1] = " "}
    IN  IF sp = {} THEN Len(line)
        ELSE CHOOSE i \in sp : \A j \in sp : i <= j

\* Mutant of NoFirstWord: the guard is missing, a line without a first word
\* is taken as a command with an empty name.
NoFirstWordDropped(cmd_end) == FALSE

\* The guard of parse_inline_command that rejects a line without a first
\* word (cmd_end == 0).
NoFirstWord(cmd_end) == cmd_end = 0

\* parse_inline_command: the first word of the line that ends at the first
\* CR LF, and the bytes taken including the CR LF, or ok = FALSE (None).
parse_inline_command(buf) ==
    LET crlf_pos == find_crlf(buf)
        line     == Slice(buf, 0, crlf_pos)
        cmd_end  == FirstSpace(line)
    IN  IF crlf_pos = None THEN [ok |-> FALSE, cmd |-> <<>>, consumed |-> 0]
        ELSE IF NoFirstWord(cmd_end) THEN [ok |-> FALSE, cmd |-> <<>>, consumed |-> 0]
        ELSE [ok |-> TRUE,
              cmd |-> from_utf8_lossy(Slice(line, 0, cmd_end)),
              consumed |-> crlf_pos + 2]

\* ------------------------------------------------------------------------
\* parse_commands
\* ------------------------------------------------------------------------

\* Mutant of BulkIncomplete: the CR LF after the payload is not counted.
BulkIncompleteNoCrlf(pos, len, buflen) == pos + len > buflen

\* The test "the declared length plus its CR LF does not fit in the
\* buffer": pos + len + 2 > buf.len().
BulkIncomplete(pos, len, buflen) == pos + len + 2 > buflen

RECURSIVE SkipElements(_, _, _)
\* The loop "for _ in 1..array_len" that steps over the elements after the
\* command name; n is the number of iterations left.  ctl is "next" when the
\* loop ends or is left by break (the outer loop goes on at pos), and
\* "return0" when the function returns (commands, 0) from inside the loop.
SkipElements(buf, pos, n) ==
    IF n <= 0 \/ pos >= Len(buf) THEN [pos |-> pos, ctl |-> "next"]
    ELSE IF buf[pos + 1] = "$" THEN
        LET r == parse_integer(From(buf, pos + 1))
            p == pos + 1 + r.consumed
        IN  IF ~r.ok THEN [pos |-> pos, ctl |-> "return0"]
            ELSE IF r.num >= 0 THEN
                IF BulkIncomplete(p, r.num, Len(buf))
                THEN [pos |-> p, ctl |-> "return0"]
                ELSE SkipElements(buf, p + r.num + 2, n - 1)
            ELSE SkipElements(buf, p, n - 1)
    ELSE IF buf[pos + 1] \in {"+", "-", ":"} THEN
        LET end == find_crlf(From(buf, pos + 1))
        IN  IF end # None THEN SkipElements(buf, pos + 1 + end + 2, n - 1)
            ELSE [pos |-> pos, ctl |-> "return0"]
    ELSE [pos |-> pos, ctl |-> "next"]

\* The part of one iteration of the outer loop that handles an array whose
\* header *<array_len> CR LF has been read; pos is just after the header.
ArrayBody(buf, pos, commands, array_len) ==
    IF array_len <= 0 THEN [commands |-> commands, pos |-> pos, ctl |-> "next"]
    ELSE IF pos >= Len(buf) \/ buf[pos + 1] # "$"
    THEN [commands |-> commands, pos |-> pos, ctl |-> "break"]
    ELSE
        LET r == parse_integer(From(buf, pos + 1))
            p == pos + 1 + r.consumed
        IN  IF ~r.ok THEN [commands |-> commands, pos |-> pos, ctl |-> "break"]
            ELSE IF r.num < 0 THEN [commands |-> commands, pos |-> p, ctl |-> "next"]
            ELSE IF BulkIncomplete(p, r.num, Len(buf))
            THEN [commands |-> commands, pos |-> p, ctl |-> "break"]
            ELSE
                LET command == from_utf8_lossy(Slice(buf, p, p + r.num))
                    sk      == SkipElements(buf, p + r.num + 2, array_len - 1)
                IN  [commands |-> Append(commands, command),
                     pos |-> sk.pos, ctl |-> sk.ctl]

\* Mutant of ScanStep: the count of the array is tested before the position
\* is moved past the array header, an array with count <= 0 leaves the
\* position where it was.
ScanStepCountFirst(buf, pos, commands) ==
    IF buf[pos + 1] # "*" THEN
        LET cmd == parse_inline_command(From(buf, pos))
        IN  IF cmd.ok
            THEN [commands |-> Append(commands, cmd.cmd),
                  pos |-> pos + cmd.consumed, ctl |-> "next"]
            ELSE [commands |-> commands, pos |-> pos, ctl |-> "break"]
    ELSE
        LET r == parse_integer(From(buf, pos + 1))
        IN  IF ~r.ok THEN [commands |-> commands, pos |-> pos, ctl |-> "break"]
            ELSE IF r.num <= 0 THEN [commands |-> commands, pos |-> pos, ctl |-> "next"]
            ELSE ArrayBody(buf, pos + 1 + r.consumed, commands, r.num)

\* One iteration of "while pos < buf.len()" (pos < Len(buf) holds): the
\* commands and the position after it, and how the iteration ends: "next"
\* (the loop condition is tested again), "break" (the function returns
\* (commands, pos)) or "return0" (it returns (commands, 0)).
ScanStep(buf, pos, commands) ==
    IF buf[pos + 1] # "*" THEN
        LET cmd == parse_inline_command(From(buf, pos))
        IN  IF cmd.ok
            THEN [commands |-> Append(commands, cmd.cmd),
                  pos |-> pos + cmd.consumed, ctl |-> "next"]
            ELSE [commands |-> commands, pos |-> pos, ctl |-> "break"]
    ELSE
        LET r == parse_integer(From(buf, pos + 1))
        IN  IF ~r.ok THEN [commands |-> commands, pos |-> pos, ctl |-> "break"]
            ELSE ArrayBody(buf, pos + 1 + r.consumed, commands, r.num)

RECURSIVE ScanLoop(_, _, _)
ScanLoop(buf, pos, commands) ==
    IF pos >= Len(buf) THEN [commands |-> commands, consumed |-> pos]
    ELSE LET s == ScanStep(buf, pos, commands)
         IN  IF s.ctl = "next" THEN ScanLoop(buf, s.pos, s.commands)
             ELSE IF s.ctl = "break"
             THEN [commands |-> s.commands, consumed |-> s.pos]
             ELSE [commands |-> s.commands, consumed |-> 0]

\* parse_commands(buf) -> (commands, consumed).
parse_commands(buf) == ScanLoop(buf, 0, <<>>)

\* ------------------------------------------------------------------------
\* RESP frames: the inputs of the scanner
\* ------------------------------------------------------------------------

Bulk(s)    == [k |-> "bulk",   s |-> s,    e |-> <<>>]
NullBulk   == [k |-> "null",   s |-> <<>>, e |-> <<>>]
Simple(s)  == [k |-> "simple", s |-> s,    e |-> <<>>]
Integer(s) == [k |-> "int",    s |-> s,    e |-> <<>>]
Boolean(s) == [k |-> "bool",   s |-> s,    e |-> <<>>]
Array(e)   == [k |-> "array",  s |-> <<>>, e |-> e]
Inline(s)  == [k |-> "inline", s |-> s,    e |-> <<>>]

RECURSIVE Dec(_)
\* The decimal digits of n >= 0.
Dec(n) == IF n < 10 THEN <<DigitChars[n + 1]>>
          ELSE Dec(n \div 10) \o <<DigitChars[(n % 10) + 1]>>

RECURSIVE Enc(_)
RECURSIVE EncAll(_)
\* The bytes of a RESP element, and of an inline line.
Enc(x) ==
    CASE x.k = "bulk"   -> <<"$">> \o Dec(Len(x.s)) \o CRLF \o x.s \o CRLF
      [] x.k = "null"   -> <<"$", "-", "1">> \o CRLF
      [] x.k = "simple" -> <<"+">> \o x.s \o CRLF
      [] x.k = "int"    -> <<":">> \o x.s \o CRLF
      [] x.k = "bool"   -> <<"#">> \o x.s \o CRLF
      [] x.k = "array"  -> <<"*">> \o Dec(Len(x.e)) \o CRLF \o EncAll(x.e)
      [] x.k = "inline" -> x.s \o CRLF

EncAll(xs) == IF xs = <<>> THEN <<>> ELSE Enc(Head(xs)) \o EncAll(Tail(xs))

GET    == <<"G", "E", "T">>
getLow == <<"g", "e", "t">>
SETk   == <<"S", "E", "T">>
Key    == <<"k">>

\* The frames buffers are built from: commands as clients send them (arrays
\* of bulk strings, inline lines), arrays with the other element kinds of
\* RESP, and the degenerate frames.
FramePool ==
    { Array(<<Bulk(GET)>>),
      Array(<<Bulk(getLow), Bulk(Key)>>),
      Array(<<Bulk(SETk), NullBulk, Integer(<<"1">>)>>),
      Array(<<Bulk(GET), Simple(<<"O", "K">>)>>),
      Array(<<Bulk(GET), Array(<<Bulk(<<"B">>)>>)>>),
      Array(<<Bulk(<<"A">>), Boolean(<<"t">>)>>),
      Array(<<Bulk(<<"xFF">>)>>),
      Array(<<>>),
      Array(<<NullBulk, Bulk(Key)>>),
      Array(<<Integer(<<"1">>)>>),
      Inline(GET),
      Inline(getLow \o <<" ">> \o Key),
      Inline(<<>>),
      Inline(<<" ">> \o Key) }

\* A frame that carries a command name: an array whose first element is a
\* bulk string (not null), or an inline line with a first word.
HasName(f) ==
    \/ f.k = "array" /\ Len(f.e) >= 1 /\ f.e[1].k = "bulk"
    \/ f.k = "inline" /\ FirstSpace(f.s) > 0 /\ f.s[1] # "*"

\* Its command name, as text.
NameOf(f) ==
    IF f.k = "array" THEN from_utf8_lossy(f.e[1].s)
    ELSE from_utf8_lossy(Slice(f.s, 0, FirstSpace(f.s)))

\* The command names of the frames fs, in the order of the frames.
NamesInOrder(fs) == [i \in 1..Len(fs) |-> NameOf(fs[i])]

\* The element kinds after the name are those the scanner steps over.
PlainArgs(f) ==
    \A i \in 2..Len(f.e) : f.e[i].k \in {"bulk", "null", "simple", "int"}

\* A command frame made of the element kinds the scanner steps over.
IsCommandFrame(f) == HasName(f) /\ PlainArgs(f)

\* Sequences of at most n elements of S.
SeqUpTo(S, n) == UNION {[1..m -> S] : m \in 0..n}

\* ------------------------------------------------------------------------
\* State
\* ------------------------------------------------------------------------

VARIABLES
    frames,     \* scanner input: the frames laid out in buf
    cut,        \* scanner input: bytes missing from the end of the last frame
    buf,        \* parse_commands: the buffer scanned
    pos,        \* parse_commands: pos
    commands,   \* parse_commands: commands
    spc,        \* parse_commands: "scan" (in the loop) or "done" (returned)
    consumed,   \* parse_commands: the second component of the value returned
    total,      \* Stats.total_commands
    counts,     \* Stats.command_counts: a function from keys to counts
    lock,       \* the task holding the write lock of command_counts, or NoTask
    log,        \* history: the names passed to record_command, in call order
    rpc,        \* per task: its position inside record_command
    tmp,        \* per task: the count it read from the entry it is updating
    pending,    \* per task: the names its loop "for cmd in &commands" has left
    mpc,        \* main: its position
    no_tls,     \* Config.no_tls
    material,   \* the TLS certificate and key: "absent", "unusable" or "ok"
    summaries,  \* number of times print_summary has run
    reads,      \* number of reads that have returned data
    cst,        \* per connection: its stage, from accept to close
    path,       \* per connection, history: the stages it has been in
    ppc,        \* per connection: its position inside proxy_connection
    client_buf, \* per connection: proxy_connection's client_buf
    upstream_buf, \* per connection: proxy_connection's upstream_buf
    wrote,      \* per connection: bytes the write_all in progress has written
    crd,        \* per connection, history: bytes returned by client reads
    uwr,        \* per connection, history: bytes written to the upstream
    urd,        \* per connection, history: bytes returned by upstream reads
    cwr,        \* per connection, history: bytes written to the client
    events,     \* per connection, history: levels of the lines logged at its end
    flushes,    \* per connection, history: the transports it has flushed
    c2p,        \* transport: bytes the client has sent, not yet read by the proxy
    p2u,        \* transport: bytes written to the upstream, not yet read by it
    u2p,        \* transport: bytes the upstream has sent, not yet read by the proxy
    p2c,        \* transport: bytes written to the client, not yet read by it
    owed,       \* upstream peer: bytes of the reply it is writing still unsent
    sent        \* client peer: number of bytes it has sent

scanVars  == <<frames, cut, buf, pos, commands, spc, consumed>>
statsVars == <<total, counts, lock, log>>
recVars   == <<rpc, tmp, pending>>
mainVars  == <<mpc, no_tls, material, summaries>>
netVars   == <<c2p, p2u, u2p, p2c, owed, sent>>
connVars  == <<cst, path, ppc, client_buf, upstream_buf, wrote,
               crd, uwr, urd, cwr, events, flushes, reads>>

vars == <<frames, cut, buf, pos, commands, spc, consumed,
          total, counts, lock, log, rpc, tmp, pending,
          mpc, no_tls, material, summaries, reads,
          cst, path, ppc, client_buf, upstream_buf, wrote,
          crd, uwr, urd, cwr, events, flushes,
          c2p, p2u, u2p, p2c, owed, sent>>

Conns == 1..NConns

NoTask == 0

\* ------------------------------------------------------------------------
\* Stats
\* ------------------------------------------------------------------------

\* Stats::new(): total 0, an empty table, the lock free.
FreshStats ==
    /\ total = 0
    /\ counts = <<>>
    /\ lock = NoTask
    /\ log = <<>>

\* No task is inside record_command.
IdleTasks ==
    /\ rpc = [c \in Conns |-> "idle"]
    /\ tmp = [c \in Conns |-> 0]
    /\ pending = [c \in Conns |-> <<>>]

\* The count of key in the table; 0 for a key it does not hold.
CountOf(key) == IF key \in DOMAIN counts THEN counts[key] ELSE 0

\* Mutant of WriteLockFree: the table is updated without excluding the
\* other tasks.
WriteLockIgnored(holder) == TRUE

\* RwLock::write() returns when no other task holds the lock.
WriteLockFree(holder) == holder = NoTask

\* record_command, line 22: total_commands.fetch_add(1).
RecFetchAdd(c) ==
    /\ rpc[c] = "idle"
    /\ pending[c] # <<>>
    /\ total' = total + 1
    /\ log' = Append(log, Head(pending[c]))
    /\ rpc' = [rpc EXCEPT ![c] = "added"]
    /\ UNCHANGED <<counts, lock, tmp, pending>>

\* Mutant of RecLockEntry: an entry the table does not hold is inserted
\* with 1, not 0, before it is incremented.
RecLockEntryInsertOne(c) ==
    /\ rpc[c] = "added"
    /\ WriteLockFree(lock)
    /\ LET key == to_uppercase(Head(pending[c]))
       IN  /\ counts' = IF key \in DOMAIN counts THEN counts
                        ELSE [k \in DOMAIN counts \cup {key} |->
                                IF k = key THEN 1 ELSE counts[k]]
           /\ tmp' = [tmp EXCEPT ![c] = IF key \in DOMAIN counts THEN counts[key] ELSE 1]
    /\ lock' = c
    /\ rpc' = [rpc EXCEPT ![c] = "locked"]
    /\ UNCHANGED <<total, log, pending>>

\* record_command, lines 24-26: the key is the name in upper case; the
\* write lock is taken and the entry of the key found, inserted with 0 when
\* the table does not hold it.
RecLockEntry(c) ==
    /\ rpc[c] = "added"
    /\ WriteLockFree(lock)
    /\ LET key == to_uppercase(Head(pending[c]))
       IN  /\ counts' = IF key \in DOMAIN counts THEN counts
                        ELSE [k \in DOMAIN counts \cup {key} |->
                                IF k = key THEN 0 ELSE counts[k]]
           /\ tmp' = [tmp EXCEPT ![c] = CountOf(key)]
    /\ lock' = c
    /\ rpc' = [rpc EXCEPT ![c] = "locked"]
    /\ UNCHANGED <<total, log, pending>>

\* Mutant of GuardDropped: the write guard outlives record_command.
GuardKept(holder) == holder

\* record_command, line 32: the write guard "counts" is a local of
\* record_command and is dropped when the function returns; no await lies
\* between line 25 and line 32.
GuardDropped(holder) == NoTask

\* record_command, lines 26-32: the entry is set to the count read plus
\* one, and the lock guard is dropped as the function returns.  (The line
\* logged at every 100th command changes no state.)
RecStoreReturn(c) ==
    /\ rpc[c] = "locked"
    /\ LET key == to_uppercase(Head(pending[c]))
       IN  counts' = [counts EXCEPT ![key] = tmp[c] + 1]
    /\ lock' = GuardDropped(c)
    /\ rpc' = [rpc EXCEPT ![c] = "idle"]
    /\ pending' = [pending EXCEPT ![c] = Tail(pending[c])]
    /\ UNCHANGED <<total, log, tmp>>

\* ------------------------------------------------------------------------
\* The process and its connections before anything runs
\* ------------------------------------------------------------------------

\* main has not started.
IdleMain ==
    /\ mpc = "start"
    /\ no_tls = TRUE
    /\ material = "absent"
    /\ summaries = 0

\* No connection has been accepted.
NoConnections ==
    /\ reads = 0
    /\ cst = [c \in Conns |-> "Free"]
    /\ path = [c \in Conns |-> <<>>]
    /\ ppc = [c \in Conns |-> "none"]
    /\ client_buf = [c \in Conns |-> <<>>]
    /\ upstream_buf = [c \in Conns |-> <<>>]
    /\ wrote = [c \in Conns |-> 0]
    /\ crd = [c \in Conns |-> <<>>]
    /\ uwr = [c \in Conns |-> <<>>]
    /\ urd = [c \in Conns |-> <<>>]
    /\ cwr = [c \in Conns |-> <<>>]
    /\ events = [c \in Conns |-> <<>>]
    /\ flushes = [c \in Conns |-> <<>>]

\* Nothing is in transit, and the peers of the connections are not looked
\* at.
NoTraffic ==
    /\ c2p = <<>>
    /\ p2u = <<>>
    /\ u2p = <<>>
    /\ p2c = <<>>
    /\ owed = 0
    /\ sent = 0

\* ------------------------------------------------------------------------
\* The scanner as a state machine
\* ------------------------------------------------------------------------

\* The bytes of fs with the last c bytes missing.
Layout(fs, c) == LET all == EncAll(fs) IN SubSeq(all, 1, Len(all) - c)

\* Offset in the buffer at which frame i of fs starts, and at which it ends.
FrameStart(fs, i) == Len(EncAll(SubSeq(fs, 1, i - 1)))
FrameEnd(fs, i)   == Len(EncAll(SubSeq(fs, 1, i)))

\* No scan is under way.
NoScan ==
    /\ frames = <<>>
    /\ cut = 0
    /\ buf = <<>>
    /\ pos = 0
    /\ commands = <<>>
    /\ spc = "done"
    /\ consumed = 0

InitScan ==
    /\ frames \in SeqUpTo(FramePool, MaxFrames)
    /\ cut \in 0..(IF frames = <<>> THEN 0 ELSE Len(Enc(frames[Len(frames)])) - 1)
    /\ buf = Layout(frames, cut)
    /\ pos = 0
    /\ commands = <<>>
    /\ spc = "scan"
    /\ consumed = 0
    /\ FreshStats
    /\ IdleTasks
    /\ IdleMain
    /\ NoConnections
    /\ NoTraffic

\* One iteration of the loop "while pos < buf.len()".
ScanIter ==
    /\ spc = "scan"
    /\ pos < Len(buf)
    /\ LET s == ScanStep(buf, pos, commands)
       IN  /\ commands' = s.commands
           /\ pos' = s.pos
           /\ spc' = IF s.ctl = "next" THEN "scan" ELSE "done"
           /\ consumed' = IF s.ctl = "break" THEN s.pos ELSE 0
    /\ UNCHANGED <<frames, cut, buf>>
    /\ UNCHANGED <<statsVars, recVars, mainVars, connVars, netVars>>

\* The loop condition fails: return (commands, pos).
ScanExit ==
    /\ spc = "scan"
    /\ pos >= Len(buf)
    /\ spc' = "done"
    /\ consumed' = pos
    /\ UNCHANGED <<frames, cut, buf, pos, commands>>
    /\ UNCHANGED <<statsVars, recVars, mainVars, connVars, netVars>>

NextScan == ScanIter \/ ScanExit

SpecScan == InitScan /\ [][NextScan]_vars

\* ------------------------------------------------------------------------
\* Tasks calling record_command concurrently
\* ------------------------------------------------------------------------

\* The names recorded in SpecStats.
NamePool == {getLow, GET, <<"G", "e", "t">>, <<"s", "e", "t">>}

\* The names of plan that are for task c, in order.
NamesFor(plan, c) ==
    LET mine == SelectSeq(plan, LAMBDA x : x[2] = c)
    IN  [i \in 1..Len(mine) |-> mine[i][1]]

\* Each task is about to record a list of names on a fresh Stats.
InitStats ==
    /\ NoScan
    /\ FreshStats
    /\ IdleMain
    /\ NoConnections
    /\ NoTraffic
    /\ rpc = [c \in Conns |-> "idle"]
    /\ tmp = [c \in Conns |-> 0]
    /\ \E plan \in SeqUpTo(NamePool \X Conns, MaxCalls) :
          pending = [c \in Conns |-> NamesFor(plan, c)]

StatsFetchAdd ==
    \E c \in Conns : RecFetchAdd(c) /\ UNCHANGED <<netVars, scanVars, mainVars, connVars>>

StatsLockEntry ==
    \E c \in Conns : RecLockEntry(c) /\ UNCHANGED <<netVars, scanVars, mainVars, connVars>>

StatsStoreReturn ==
    \E c \in Conns : RecStoreReturn(c) /\ UNCHANGED <<netVars, scanVars, mainVars, connVars>>

NextStats == StatsFetchAdd \/ StatsLockEntry \/ StatsStoreReturn

SpecStats == InitStats /\ [][NextStats]_vars

\* ------------------------------------------------------------------------
\* main and run_server
\* ------------------------------------------------------------------------

\* The process runs: the accept loop is serving, or the shutdown signal has
\* been taken and the summary is not printed yet.
Running == mpc \in {"accepting", "stopping"}

\* Config::parse_args and validate, then Stats::new (main, lines 25-31):
\* with TLS on the listener, a missing --cert or --key is an error returned
\* by main.
ParseArgs ==
    /\ mpc = "start"
    /\ mpc' = IF ~no_tls /\ material = "absent" THEN "exit_err" ELSE "run_server"
    /\ UNCHANGED <<no_tls, material, summaries>>
    /\ UNCHANGED <<netVars, scanVars, statsVars, recVars, connVars>>

\* run_server, line 90: TcpListener::bind succeeds.
Bind ==
    /\ mpc = "run_server"
    /\ mpc' = "bound"
    /\ UNCHANGED <<no_tls, material, summaries>>
    /\ UNCHANGED <<netVars, scanVars, statsVars, recVars, connVars>>

\* run_server, line 90: bind fails; main logs the error and returns it
\* (main, lines 36-38).
BindFail ==
    /\ mpc = "run_server"
    /\ mpc' = "exit_err"
    /\ UNCHANGED <<no_tls, material, summaries>>
    /\ UNCHANGED <<netVars, scanVars, statsVars, recVars, connVars>>

\* run_server, lines 103-107: run_plain_server enters its accept loop;
\* run_tls_server first builds the TLS configuration from the certificate
\* and key files (line 154) and returns the error when they cannot be
\* loaded.
Serve ==
    /\ mpc = "bound"
    /\ mpc' = IF no_tls \/ material = "ok" THEN "accepting" ELSE "exit_err"
    /\ UNCHANGED <<no_tls, material, summaries>>
    /\ UNCHANGED <<netVars, scanVars, statsVars, recVars, connVars>>

\* A connection changes stage.
Move(c, stage) ==
    /\ cst' = [cst EXCEPT ![c] = stage]
    /\ path' = [path EXCEPT ![c] = Append(@, stage)]

\* listener.accept() returns a socket and the task of the connection is
\* spawned (run_plain_server, lines 117-123; run_tls_server, lines 158-165).
Accept ==
    /\ mpc = "accepting"
    /\ \E c \in Conns :
          /\ cst[c] = "Free"
          /\ \A d \in Conns : cst[d] = "Free" => c <= d
          /\ Move(c, "Accepted")
    /\ UNCHANGED <<ppc, client_buf, upstream_buf, wrote, crd, uwr, urd, cwr,
                   events, flushes, reads>>
    /\ UNCHANGED <<netVars, scanVars, statsVars, recVars, mainVars>>

\* listener.accept() fails: the accept loop returns the error ("?") and main
\* returns it.
AcceptFail ==
    /\ mpc = "accepting"
    /\ mpc' = "exit_err"
    /\ UNCHANGED <<no_tls, material, summaries>>
    /\ UNCHANGED <<netVars, scanVars, statsVars, recVars, connVars>>

\* main, lines 41-43: ctrl_c wins the select! against run_server.
Signal ==
    /\ mpc \in {"run_server", "bound", "accepting"}
    /\ mpc' = "stopping"
    /\ UNCHANGED <<no_tls, material, summaries>>
    /\ UNCHANGED <<netVars, scanVars, statsVars, recVars, connVars>>

\* Mutant of PrintSummary: main waits until every accepted connection is
\* closed before it prints the summary.
PrintSummaryAfterDrain ==
    /\ mpc = "stopping"
    /\ lock = NoTask
    /\ \A c \in Conns : cst[c] \in {"Free", "Closed"}
    /\ summaries' = summaries + 1
    /\ mpc' = "exit_ok"
    /\ UNCHANGED <<no_tls, material>>
    /\ UNCHANGED <<netVars, scanVars, statsVars, recVars, connVars>>

\* main, lines 47-50: print_summary (it takes the read lock of the table),
\* then main returns Ok.
PrintSummary ==
    /\ mpc = "stopping"
    /\ lock = NoTask
    /\ summaries' = summaries + 1
    /\ mpc' = "exit_ok"
    /\ UNCHANGED <<no_tls, material>>
    /\ UNCHANGED <<netVars, scanVars, statsVars, recVars, connVars>>

\* ------------------------------------------------------------------------
\* The task of a connection, up to proxy_connection
\* ------------------------------------------------------------------------

\* Mutant of NeedsHandshake: the TLS listener hands the socket on without a
\* handshake.
NeedsHandshakeNever(plain) == FALSE

\* run_server, line 103: run_tls_server, whose tasks call acceptor.accept,
\* serves unless no_tls is set.
NeedsHandshake(plain) == ~plain

\* Mutant of AfterTaskFailure: the failure is returned into the accept loop
\* and ends the server.
AfterTaskFailureReturned(m) == "exit_err"

\* What a failure inside a connection's task does to main: the task logs the
\* error and returns (run_tls_server, lines 171-174 and 186-189); nothing
\* is returned to the accept loop.
AfterTaskFailure(m) == m

\* The task starts: with TLS it awaits acceptor.accept (run_tls_server,
\* line 169), without it awaits UpstreamConnection::connect
\* (run_plain_server, line 127).
TaskStart(c) ==
    /\ Running
    /\ cst[c] = "Accepted"
    /\ Move(c, IF NeedsHandshake(no_tls) THEN "TlsHandshaking" ELSE "UpstreamConnecting")
    /\ UNCHANGED <<ppc, client_buf, upstream_buf, wrote, crd, uwr, urd, cwr,
                   events, flushes, reads>>
    /\ UNCHANGED <<netVars, scanVars, statsVars, recVars, mainVars>>

\* run_tls_server, lines 169-170: the handshake succeeds.
HandshakeOk(c) ==
    /\ Running
    /\ cst[c] = "TlsHandshaking"
    /\ Move(c, "UpstreamConnecting")
    /\ UNCHANGED <<ppc, client_buf, upstream_buf, wrote, crd, uwr, urd, cwr,
                   events, flushes, reads>>
    /\ UNCHANGED <<netVars, scanVars, statsVars, recVars, mainVars>>

\* run_tls_server, lines 171-174: the handshake fails; error!, return.
HandshakeFail(c) ==
    /\ Running
    /\ cst[c] = "TlsHandshaking"
    /\ Move(c, "Closed")
    /\ events' = [events EXCEPT ![c] = Append(@, "error")]
    /\ mpc' = AfterTaskFailure(mpc)
    /\ UNCHANGED <<ppc, client_buf, upstream_buf, wrote, crd, uwr, urd, cwr,
                   flushes, reads>>
    /\ UNCHANGED <<no_tls, material, summaries>>
    /\ UNCHANGED <<netVars, scanVars, statsVars, recVars>>

\* The connect succeeds and proxy_connection is entered with empty buffers
\* (run_tls_server, lines 185 and 193; proxy_connection, lines 137-140).
ConnectOk(c) ==
    /\ Running
    /\ cst[c] = "UpstreamConnecting"
    /\ Move(c, "Proxying")
    /\ ppc' = [ppc EXCEPT ![c] = "select"]
    /\ UNCHANGED <<client_buf, upstream_buf, wrote, crd, uwr, urd, cwr,
                   events, flushes, reads>>
    /\ UNCHANGED <<netVars, scanVars, statsVars, recVars, mainVars>>

\* run_tls_server, lines 186-189: the connect fails; error!, return.
ConnectFail(c) ==
    /\ Running
    /\ cst[c] = "UpstreamConnecting"
    /\ Move(c, "Closed")
    /\ events' = [events EXCEPT ![c] = Append(@, "error")]
    /\ mpc' = AfterTaskFailure(mpc)
    /\ UNCHANGED <<ppc, client_buf, upstream_buf, wrote, crd, uwr, urd, cwr,
                   flushes, reads>>
    /\ UNCHANGED <<no_tls, material, summaries>>
    /\ UNCHANGED <<netVars, scanVars, statsVars, recVars>>

\* ------------------------------------------------------------------------
\* proxy_connection
\* ------------------------------------------------------------------------

\* What a client read can return: an inline command, or the first byte of
\* an array header (parse_commands finds no command in it and consumes
\* nothing).
ClientChunks ==
    { <<"a", "CR", "LF">>,
      <<"*">> }

\* What an upstream read can return.
UpstreamChunks == { <<"+">> }

\* The levels of the lines logged when something ends a connection:
\* error! for a failure, debug! for a peer that disconnected.
LogLevels == {"error", "debug"}

\* Mutant of Forwarded: only the bytes the parser consumed are written.
ForwardedConsumed(cbuf) == Slice(cbuf, 0, parse_commands(cbuf).consumed)

\* The bytes handed to upstream.write_all: the whole of client_buf (line
\* 162), whatever parse_commands returned.
Forwarded(cbuf) == cbuf

\* Mutant of AfterEndEvent: the loop goes back to select!.
AfterEndEventContinue(level) == "select"

\* Where proxy_connection goes after a zero-length read (logged with
\* debug!) or a failed read or write (logged with error!): each of them is
\* a "break" out of the loop to the flushes of lines 200-201.
AfterEndEvent(level) == "flush_client"

\* A line of the given level is logged and the loop of connection c ends.
EndLoop(c, level) ==
    /\ events' = [events EXCEPT ![c] = Append(@, level)]
    /\ ppc' = [ppc EXCEPT ![c] = AfterEndEvent(level)]
    /\ mpc' = IF level = "error" THEN AfterTaskFailure(mpc) ELSE mpc
    /\ UNCHANGED <<no_tls, material, summaries>>

\* Mutant of RecordOrder: the names are recorded last first.
RecordOrderReversed(cmds) == [i \in 1..Len(cmds) |-> cmds[Len(cmds) + 1 - i]]

\* Lines 156-159: "for cmd in &commands" takes the names in the order of
\* the vector parse_commands returned.
RecordOrder(cmds) == cmds

\* Lines 145-157 with Ok(n), n > 0: the bytes are appended to client_buf
\* and parse_commands runs on the whole of it; the names it returned are
\* recorded next.
ClientReadChunk(c, chunk) ==
    LET cbuf == client_buf[c] \o chunk
        cmds == parse_commands(cbuf).commands
    IN  /\ client_buf' = [client_buf EXCEPT ![c] = cbuf]
        /\ crd' = [crd EXCEPT ![c] = @ \o chunk]
        /\ pending' = [pending EXCEPT ![c] = RecordOrder(cmds)]
        /\ ppc' = [ppc EXCEPT ![c] = IF cmds = <<>> THEN "write_up" ELSE "record"]

\* The client read of connection c returns one of the chunks.
ClientReadData(c) ==
    /\ Running
    /\ cst[c] = "Proxying"
    /\ ppc[c] = "select"
    /\ reads < MaxReads
    /\ \E chunk \in ClientChunks : ClientReadChunk(c, chunk)
    /\ reads' = reads + 1
    /\ UNCHANGED <<cst, path, upstream_buf, wrote, uwr, urd, cwr, events, flushes>>
    /\ UNCHANGED <<rpc, tmp>>
    /\ UNCHANGED <<netVars, scanVars, statsVars, mainVars>>

\* Lines 156-159: the call of record_command for the next name, in its
\* three steps; after the last name the loop "for cmd in &commands" is left.
ProxyFetchAdd(c) ==
    /\ Running
    /\ cst[c] = "Proxying"
    /\ ppc[c] = "record"
    /\ RecFetchAdd(c)
    /\ UNCHANGED <<netVars, scanVars, mainVars, connVars>>

ProxyLockEntry(c) ==
    /\ Running
    /\ cst[c] = "Proxying"
    /\ ppc[c] = "record"
    /\ RecLockEntry(c)
    /\ UNCHANGED <<netVars, scanVars, mainVars, connVars>>

ProxyStoreReturn(c) ==
    /\ Running
    /\ cst[c] = "Proxying"
    /\ ppc[c] = "record"
    /\ RecStoreReturn(c)
    /\ ppc' = [ppc EXCEPT ![c] = IF pending'[c] = <<>> THEN "write_up" ELSE "record"]
    /\ UNCHANGED <<cst, path, client_buf, upstream_buf, wrote, crd, uwr, urd,
                   cwr, events, flushes, reads>>
    /\ UNCHANGED <<netVars, scanVars, mainVars>>

\* Mutant of Cleared: the bytes the parser did not consume are kept for
\* the next read.
ClearedConsumed(cbuf) == From(cbuf, parse_commands(cbuf).consumed)

\* client_buf.clear() (line 166): nothing is left of the buffer, whatever
\* part of it parse_commands consumed.
Cleared(cbuf) == <<>>

\* Lines 162-166: upstream.write_all(&client_buf) writes the bytes in one
\* or more writes of any size; when all are written client_buf is cleared
\* and the loop goes back to select!.
WriteUpstream(c) ==
    /\ Running
    /\ cst[c] = "Proxying"
    /\ ppc[c] = "write_up"
    /\ LET data == Forwarded(client_buf[c])
           rest == Len(data) - wrote[c]
       IN  \E n \in (IF rest = 0 THEN {0} ELSE 1..rest) :
              /\ uwr' = [uwr EXCEPT ![c] = @ \o Slice(data, wrote[c], wrote[c] + n)]
              /\ IF n = rest
                    THEN /\ client_buf' = [client_buf EXCEPT ![c] = Cleared(@)]
                         /\ wrote' = [wrote EXCEPT ![c] = 0]
                         /\ ppc' = [ppc EXCEPT ![c] = "select"]
                    ELSE /\ wrote' = [wrote EXCEPT ![c] = @ + n]
                         /\ UNCHANGED <<client_buf, ppc>>
    /\ UNCHANGED <<cst, path, upstream_buf, crd, urd, cwr, events, flushes, reads>>
    /\ UNCHANGED <<netVars, scanVars, statsVars, recVars, mainVars>>

\* Lines 162-165: a write of write_all fails; error!, break.
WriteUpstreamErr(c) ==
    /\ Running
    /\ cst[c] = "Proxying"
    /\ ppc[c] = "write_up"
    /\ EndLoop(c, "error")
    /\ UNCHANGED <<cst, path, client_buf, upstream_buf, wrote, crd, uwr, urd,
                   cwr, flushes, reads>>
    /\ UNCHANGED <<netVars, scanVars, statsVars, recVars>>

\* Lines 147-150 (Ok(0)) and 167-170 (Err): the client read ends the loop.
ClientReadEnd(c) ==
    /\ Running
    /\ cst[c] = "Proxying"
    /\ ppc[c] = "select"
    /\ \E level \in LogLevels : EndLoop(c, level)
    /\ UNCHANGED <<cst, path, client_buf, upstream_buf, wrote, crd, uwr, urd,
                   cwr, flushes, reads>>
    /\ UNCHANGED <<netVars, scanVars, statsVars, recVars>>

\* Mutant of UpstreamReadData: the bytes read from the upstream are handled
\* as the client arm handles its bytes, appended to client_buf and parsed.
UpstreamReadDataParsed(c) ==
    /\ Running
    /\ cst[c] = "Proxying"
    /\ ppc[c] = "select"
    /\ reads < MaxReads
    /\ \E chunk \in UpstreamChunks :
          LET cbuf == client_buf[c] \o chunk
              cmds == parse_commands(cbuf).commands
          IN  /\ client_buf' = [client_buf EXCEPT ![c] = cbuf]
              /\ urd' = [urd EXCEPT ![c] = @ \o chunk]
              /\ pending' = [pending EXCEPT ![c] = RecordOrder(cmds)]
              /\ ppc' = [ppc EXCEPT ![c] = IF cmds = <<>> THEN "write_up" ELSE "record"]
    /\ reads' = reads + 1
    /\ UNCHANGED <<cst, path, upstream_buf, wrote, crd, uwr, cwr, events, flushes>>
    /\ UNCHANGED <<rpc, tmp>>
    /\ UNCHANGED <<netVars, scanVars, statsVars, mainVars>>

\* Lines 175-182 with Ok(n), n > 0: the bytes are appended to upstream_buf;
\* nothing is parsed.
UpstreamReadData(c) ==
    /\ Running
    /\ cst[c] = "Proxying"
    /\ ppc[c] = "select"
    /\ reads < MaxReads
    /\ \E chunk \in UpstreamChunks :
          /\ upstream_buf' = [upstream_buf EXCEPT ![c] = @ \o chunk]
          /\ urd' = [urd EXCEPT ![c] = @ \o chunk]
    /\ ppc' = [ppc EXCEPT ![c] = "write_client"]
    /\ reads' = reads + 1
    /\ UNCHANGED <<cst, path, client_buf, wrote, crd, uwr, cwr, events, flushes>>
    /\ UNCHANGED <<netVars, scanVars, statsVars, recVars, mainVars>>

\* Lines 183-187: client.write_all(&upstream_buf), then upstream_buf.clear().
WriteClient(c) ==
    /\ Running
    /\ cst[c] = "Proxying"
    /\ ppc[c] = "write_client"
    /\ LET data == upstream_buf[c]
           rest == Len(data) - wrote[c]
       IN  \E n \in 1..rest :
              /\ cwr' = [cwr EXCEPT ![c] = @ \o Slice(data, wrote[c], wrote[c] + n)]
              /\ IF n = rest
                    THEN /\ upstream_buf' = [upstream_buf EXCEPT ![c] = <<>>]
                         /\ wrote' = [wrote EXCEPT ![c] = 0]
                         /\ ppc' = [ppc EXCEPT ![c] = "select"]
                    ELSE /\ wrote' = [wrote EXCEPT ![c] = @ + n]
                         /\ UNCHANGED <<upstream_buf, ppc>>
    /\ UNCHANGED <<cst, path, client_buf, crd, uwr, urd, events, flushes, reads>>
    /\ UNCHANGED <<netVars, scanVars, statsVars, recVars, mainVars>>

\* Lines 183-186: a write of write_all fails; error!, break.
WriteClientErr(c) ==
    /\ Running
    /\ cst[c] = "Proxying"
    /\ ppc[c] = "write_client"
    /\ EndLoop(c, "error")
    /\ UNCHANGED <<cst, path, client_buf, upstream_buf, wrote, crd, uwr, urd,
                   cwr, flushes, reads>>
    /\ UNCHANGED <<netVars, scanVars, statsVars, recVars>>

\* Lines 177-180 (Ok(0)) and 189-192 (Err): the upstream read ends the loop.
UpstreamReadEnd(c) ==
    /\ Running
    /\ cst[c] = "Proxying"
    /\ ppc[c] = "select"
    /\ \E level \in LogLevels : EndLoop(c, level)
    /\ UNCHANGED <<cst, path, client_buf, upstream_buf, wrote, crd, uwr, urd,
                   cwr, flushes, reads>>
    /\ UNCHANGED <<netVars, scanVars, statsVars, recVars>>

\* Line 200: "let _ = client.flush().await": the result, Ok or Err, is
\* dropped.
FlushClient(c) ==
    /\ Running
    /\ cst[c] = "Proxying"
    /\ ppc[c] = "flush_client"
    /\ \E result \in {"Ok", "Err"} :
          flushes' = [flushes EXCEPT ![c] = Append(@, "client")]
    /\ ppc' = [ppc EXCEPT ![c] = "flush_upstream"]
    /\ UNCHANGED <<cst, path, client_buf, upstream_buf, wrote, crd, uwr, urd,
                   cwr, events, reads>>
    /\ UNCHANGED <<netVars, scanVars, statsVars, recVars, mainVars>>

\* Lines 201-202: "let _ = upstream.flush().await", then proxy_connection
\* returns (it has no return value) and the task ends, dropping both
\* transports.
FlushUpstream(c) ==
    /\ Running
    /\ cst[c] = "Proxying"
    /\ ppc[c] = "flush_upstream"
    /\ \E result \in {"Ok", "Err"} :
          flushes' = [flushes EXCEPT ![c] = Append(@, "upstream")]
    /\ ppc' = [ppc EXCEPT ![c] = "returned"]
    /\ Move(c, "Closed")
    /\ UNCHANGED <<client_buf, upstream_buf, wrote, crd, uwr, urd, cwr, events, reads>>
    /\ UNCHANGED <<netVars, scanVars, statsVars, recVars, mainVars>>

\* ------------------------------------------------------------------------
\* The proxy process
\* ------------------------------------------------------------------------

\* The process is started, with or without --no-tls; with TLS the
\* certificate and key are not given, given but unusable, or usable.
Init ==
    /\ NoScan
    /\ FreshStats
    /\ IdleTasks
    /\ NoConnections
    /\ NoTraffic
    /\ mpc = "start"
    /\ no_tls \in BOOLEAN
    /\ material \in {"absent", "unusable", "ok"}
    /\ no_tls => material = "absent"
    /\ summaries = 0

Next ==
    \/ ParseArgs
    \/ Bind
    \/ BindFail
    \/ Serve
    \/ Accept
    \/ AcceptFail
    \/ Signal
    \/ PrintSummary
    \/ \E c \in Conns : TaskStart(c)
    \/ \E c \in Conns : HandshakeOk(c)
    \/ \E c \in Conns : HandshakeFail(c)
    \/ \E c \in Conns : ConnectOk(c)
    \/ \E c \in Conns : ConnectFail(c)
    \/ \E c \in Conns : ClientReadData(c)
    \/ \E c \in Conns : ProxyFetchAdd(c)
    \/ \E c \in Conns : ProxyLockEntry(c)
    \/ \E c \in Conns : ProxyStoreReturn(c)
    \/ \E c \in Conns : WriteUpstream(c)
    \/ \E c \in Conns : WriteUpstreamErr(c)
    \/ \E c \in Conns : ClientReadEnd(c)
    \/ \E c \in Conns : UpstreamReadData(c)
    \/ \E c \in Conns : WriteClient(c)
    \/ \E c \in Conns : WriteClientErr(c)
    \/ \E c \in Conns : UpstreamReadEnd(c)
    \/ \E c \in Conns : FlushClient(c)
    \/ \E c \in Conns : FlushUpstream(c)

Spec == Init /\ [][Next]_vars

\* ------------------------------------------------------------------------
\* One connection relaying whole command frames
\* ------------------------------------------------------------------------

\* The frames the client of that connection sends: two inline commands and
\* an array command.
OrderFrames == {Inline(<<"a">>), Inline(<<"b">>), Array(<<Bulk(GET)>>)}

\* The first connection of a plaintext listener has reached
\* proxy_connection; no other connection has been accepted.  frames holds
\* the frames its client has sent so far.
InitOrder ==
    /\ NoScan
    /\ FreshStats
    /\ IdleTasks
    /\ mpc = "accepting"
    /\ no_tls = TRUE
    /\ material = "absent"
    /\ summaries = 0
    /\ reads = 0
    /\ cst = [c \in Conns |-> IF c = 1 THEN "Proxying" ELSE "Free"]
    /\ path = [c \in Conns |->
                IF c = 1 THEN <<"Accepted", "UpstreamConnecting", "Proxying">> ELSE <<>>]
    /\ ppc = [c \in Conns |-> IF c = 1 THEN "select" ELSE "none"]
    /\ client_buf = [c \in Conns |-> <<>>]
    /\ upstream_buf = [c \in Conns |-> <<>>]
    /\ wrote = [c \in Conns |-> 0]
    /\ crd = [c \in Conns |-> <<>>]
    /\ uwr = [c \in Conns |-> <<>>]
    /\ urd = [c \in Conns |-> <<>>]
    /\ cwr = [c \in Conns |-> <<>>]
    /\ events = [c \in Conns |-> <<>>]
    /\ flushes = [c \in Conns |-> <<>>]
    /\ NoTraffic

\* Lines 145-157: a client read returns one or more whole frames.
OrderRead ==
    /\ Running
    /\ cst[1] = "Proxying"
    /\ ppc[1] = "select"
    /\ reads < MaxReads
    /\ \E fs \in SeqUpTo(OrderFrames, MaxFrames) \ {<<>>} :
          /\ ClientReadChunk(1, EncAll(fs))
          /\ frames' = frames \o fs
    /\ reads' = reads + 1
    /\ UNCHANGED <<cst, path, upstream_buf, wrote, uwr, urd, cwr, events, flushes>>
    /\ UNCHANGED <<rpc, tmp>>
    /\ UNCHANGED <<cut, buf, pos, commands, spc, consumed>>
    /\ UNCHANGED <<statsVars, mainVars, netVars>>

NextOrder ==
    \/ OrderRead
    \/ \E c \in Conns : ProxyFetchAdd(c)
    \/ \E c \in Conns : ProxyLockEntry(c)
    \/ \E c \in Conns : ProxyStoreReturn(c)
    \/ \E c \in Conns : WriteUpstream(c)

SpecOrder == InitOrder /\ [][NextOrder]_vars

\* ------------------------------------------------------------------------
\* One connection between two peers, over transports of bounded capacity
\* ------------------------------------------------------------------------

\* The smaller of two numbers.
Min(a, b) == IF a < b THEN a ELSE b

\* The byte stream of the client: the inline command "a", again and again.
ClientByte(i) == <<"a", "CR", "LF">>[(i % 3) + 1]

\* The first connection of a plaintext listener has reached
\* proxy_connection; nothing has been sent yet.
InitPipes == InitOrder

\* The client writes its next byte when its transport takes it.
ClientPeerWrite ==
    /\ sent < MaxSent
    /\ Len(c2p) < PipeCap
    /\ c2p' = Append(c2p, ClientByte(sent))
    /\ sent' = sent + 1
    /\ UNCHANGED <<p2u, u2p, p2c, owed>>
    /\ UNCHANGED <<scanVars, statsVars, recVars, mainVars, connVars>>

\* The client reads what the proxy has written to it.
ClientPeerRead ==
    /\ p2c # <<>>
    /\ p2c' = <<>>
    /\ UNCHANGED <<c2p, p2u, u2p, owed, sent>>
    /\ UNCHANGED <<scanVars, statsVars, recVars, mainVars, connVars>>

\* The upstream, when it is not writing a reply, reads what the proxy has
\* written to it and has as many bytes to reply.
UpstreamPeerRead ==
    /\ owed = 0
    /\ p2u # <<>>
    /\ owed' = Len(p2u)
    /\ p2u' = <<>>
    /\ UNCHANGED <<c2p, u2p, p2c, sent>>
    /\ UNCHANGED <<scanVars, statsVars, recVars, mainVars, connVars>>

\* The upstream writes the next byte of its reply when its transport takes
\* it; until the reply is written it reads nothing.
UpstreamPeerWrite ==
    /\ owed > 0
    /\ Len(u2p) < PipeCap
    /\ u2p' = Append(u2p, "+")
    /\ owed' = owed - 1
    /\ UNCHANGED <<c2p, p2u, p2c, sent>>
    /\ UNCHANGED <<scanVars, statsVars, recVars, mainVars, connVars>>

\* Lines 145-157: the client read is ready when bytes have arrived; it
\* returns them all (they are fewer than the 8192 of client_temp).
PipeClientRead ==
    /\ Running
    /\ cst[1] = "Proxying"
    /\ ppc[1] = "select"
    /\ c2p # <<>>
    /\ ClientReadChunk(1, c2p)
    /\ c2p' = <<>>
    /\ UNCHANGED <<p2u, u2p, p2c, owed, sent>>
    /\ UNCHANGED <<cst, path, upstream_buf, wrote, uwr, urd, cwr, events, flushes, reads>>
    /\ UNCHANGED <<rpc, tmp>>
    /\ UNCHANGED <<scanVars, statsVars, mainVars>>

\* Lines 162-166: upstream.write_all(&client_buf).await goes on when the
\* transport takes bytes, and is awaited inside the arm of the select!;
\* when all are written client_buf is cleared and the loop goes back to
\* the race.
PipeWriteUpstream ==
    /\ Running
    /\ cst[1] = "Proxying"
    /\ ppc[1] = "write_up"
    /\ LET data == Forwarded(client_buf[1])
           rest == Len(data) - wrote[1]
           room == PipeCap - Len(p2u)
       IN  \E n \in 1..Min(rest, room) :
              /\ uwr' = [uwr EXCEPT ![1] = @ \o Slice(data, wrote[1], wrote[1] + n)]
              /\ p2u' = p2u \o Slice(data, wrote[1], wrote[1] + n)
              /\ IF n = rest
                    THEN /\ client_buf' = [client_buf EXCEPT ![1] = Cleared(@)]
                         /\ wrote' = [wrote EXCEPT ![1] = 0]
                         /\ ppc' = [ppc EXCEPT ![1] = "select"]
                    ELSE /\ wrote' = [wrote EXCEPT ![1] = @ + n]
                         /\ UNCHANGED <<client_buf, ppc>>
    /\ UNCHANGED <<c2p, u2p, p2c, owed, sent>>
    /\ UNCHANGED <<cst, path, upstream_buf, crd, urd, cwr, events, flushes, reads>>
    /\ UNCHANGED <<scanVars, statsVars, recVars, mainVars>>

\* Lines 175-182: the upstream read is ready when bytes have arrived.
PipeUpstreamRead ==
    /\ Running
    /\ cst[1] = "Proxying"
    /\ ppc[1] = "select"
    /\ u2p # <<>>
    /\ upstream_buf' = [upstream_buf EXCEPT ![1] = @ \o u2p]
    /\ urd' = [urd EXCEPT ![1] = @ \o u2p]
    /\ ppc' = [ppc EXCEPT ![1] = "write_client"]
    /\ u2p' = <<>>
    /\ UNCHANGED <<c2p, p2u, p2c, owed, sent>>
    /\ UNCHANGED <<cst, path, client_buf, wrote, crd, uwr, cwr, events, flushes, reads>>
    /\ UNCHANGED <<scanVars, statsVars, recVars, mainVars>>

\* Lines 183-187: client.write_all(&upstream_buf).await, inside the arm of
\* the select!, then upstream_buf.clear().
PipeWriteClient ==
    /\ Running
    /\ cst[1] = "Proxying"
    /\ ppc[1] = "write_client"
    /\ LET data == upstream_buf[1]
           rest == Len(data) - wrote[1]
           room == PipeCap - Len(p2c)
       IN  \E n \in 1..Min(rest, room) :
              /\ cwr' = [cwr EXCEPT ![1] = @ \o Slice(data, wrote[1], wrote[1] + n)]
              /\ p2c' = p2c \o Slice(data, wrote[1], wrote[1] + n)
              /\ IF n = rest
                    THEN /\ upstream_buf' = [upstream_buf EXCEPT ![1] = <<>>]
                         /\ wrote' = [wrote EXCEPT ![1] = 0]
                         /\ ppc' = [ppc EXCEPT ![1] = "select"]
                    ELSE /\ wrote' = [wrote EXCEPT ![1] = @ + n]
                         /\ UNCHANGED <<upstream_buf, ppc>>
    /\ UNCHANGED <<c2p, p2u, u2p, owed, sent>>
    /\ UNCHANGED <<cst, path, client_buf, crd, uwr, urd, events, flushes, reads>>
    /\ UNCHANGED <<scanVars, statsVars, recVars, mainVars>>

NextPipes ==
    \/ ClientPeerWrite
    \/ ClientPeerRead
    \/ UpstreamPeerRead
    \/ UpstreamPeerWrite
    \/ PipeClientRead
    \/ \E c \in Conns : ProxyFetchAdd(c)
    \/ \E c \in Conns : ProxyLockEntry(c)
    \/ \E c \in Conns : ProxyStoreReturn(c)
    \/ PipeWriteUpstream
    \/ PipeUpstreamRead
    \/ PipeWriteClient

\* Every party goes on when it can: the peers, the tasks of the runtime,
\* and each arm of the select!, which polls its ready arms in random
\* order, so that an arm that is ready again and again is taken.
SpecPipes ==
    /\ InitPipes
    /\ [][NextPipes]_vars
    /\ WF_vars(ClientPeerWrite)
    /\ WF_vars(ClientPeerRead)
    /\ WF_vars(UpstreamPeerRead)
    /\ WF_vars(UpstreamPeerWrite)
    /\ SF_vars(PipeClientRead)
    /\ SF_vars(PipeUpstreamRead)
    /\ WF_vars(PipeWriteUpstream)
    /\ WF_vars(PipeWriteClient)
    /\ \A c \in Conns :
          WF_vars(ProxyFetchAdd(c)) /\ WF_vars(ProxyLockEntry(c)) /\ WF_vars(ProxyStoreReturn(c))

\* The process with its scheduling: main, once the select! of lines 34-44
\* is over, runs on to print_summary and returns; a task inside
\* record_command, which has no await, runs on to its end.
SpecLive ==
    /\ Spec
    /\ WF_vars(PrintSummary)
    /\ \A c \in Conns : WF_vars(ProxyLockEntry(c)) /\ WF_vars(ProxyStoreReturn(c))

\* ------------------------------------------------------------------------
\* Properties of the scanner (checked under SpecScan)
\* ------------------------------------------------------------------------

\* The buffer is made of complete frames only, each carrying a command name.
AllComplete == cut = 0 /\ \A i \in 1..Len(frames) : HasName(frames[i])

\* C2: for a buffer that is the concatenation of N complete frames that
\* carry a command name (RESP arrays, inline lines), with no partial frame
\* at its end, parse_commands returns exactly N names, the i-th being the
\* command name of the i-th frame.
C2_OneNamePerFrame ==
    (spc = "done" /\ AllComplete)
        => commands = [i \in 1..Len(frames) |-> NameOf(frames[i])]

\* Frame i of the buffer is entirely present.
Complete(i) == i < Len(frames) \/ cut = 0

\* C3: when the scan is at the start of a well-formed RESP array whose first
\* element is a bulk string, that iteration records exactly one name, the
\* text of the first bulk string with its case unchanged, and goes on after
\* the end of the array: no later element of the array is scanned as a
\* command.
C3_ArrayGivesItsName ==
    [][\A i \in 1..Len(frames) :
          ( /\ spc = "scan"
            /\ Complete(i)
            /\ frames[i].k = "array"
            /\ HasName(frames[i])
            /\ pos = FrameStart(frames, i) )
          => ( /\ commands' = Append(commands, NameOf(frames[i]))
               /\ pos' = FrameEnd(frames, i)
               /\ spc' = "scan" )]_vars

\* The buffer is zero or more complete command frames followed by one
\* partial command frame: an array of which at least one byte is present
\* and at least one is missing.
PartialLast ==
    /\ frames # <<>>
    /\ cut > 0
    /\ \A i \in 1..Len(frames) : IsCommandFrame(frames[i])
    /\ frames[Len(frames)].k = "array"

\* The names of the complete frames before the partial one.
NamesBeforePartial == [i \in 1..(Len(frames) - 1) |-> NameOf(frames[i])]

\* The first bulk string of the partial frame, payload and CR LF, is in the
\* buffer.
FirstBulkPresent ==
    LET f == frames[Len(frames)]
        hdr == Len(<<"*">> \o Dec(Len(f.e)) \o CRLF)
    IN  Len(Enc(f)) - cut >= hdr + Len(Enc(f.e[1]))

\* C4 as stated: for a buffer of complete frames followed by one partial
\* frame, the names returned are exactly the names of the complete frames
\* before the partial one.
C4_OnlyCompleteFramesNamed ==
    (spc = "done" /\ PartialLast) => commands = NamesBeforePartial

\* C4 as amended: for a buffer of complete command frames followed by one
\* partial array frame, parse_commands returns (it has no error result) the
\* names of the complete frames in order, followed by the name of the partial
\* frame when the first bulk string of the partial frame is entirely present.
C4_PartialFrameNames ==
    (spc = "done" /\ PartialLast)
        => commands = NamesBeforePartial \o
                        (IF FirstBulkPresent
                         THEN <<NameOf(frames[Len(frames)])>> ELSE <<>>)

\* C4 witness: a scan has returned on a complete frame followed by a partial
\* array whose name is present and whose argument is cut.
C4_Witness ==
    /\ spc = "done"
    /\ PartialLast
    /\ Len(frames) = 2
    /\ FirstBulkPresent
    /\ Len(commands) = 2

\* The inline line at the scan position: the line up to the first CR LF at
\* or after pos, and its first word.
AtInline == spc = "scan" /\ pos < Len(buf) /\ buf[pos + 1] # "*"
LineEnd  == find_crlf(From(buf, pos))
Line     == Slice(From(buf, pos), 0, LineEnd)
Word     == from_utf8_lossy(Slice(Line, 0, FirstSpace(Line)))

\* The iteration records name and goes on just after the CR LF of the line.
RecordsLine(name) ==
    /\ commands' = Append(commands, name)
    /\ pos' = pos + LineEnd + 2
    /\ spc' = "scan"

\* The iteration stops the scan at pos and records nothing.
StopsScan ==
    /\ commands' = commands
    /\ pos' = pos
    /\ spc' = "done"

\* C5 as stated: at a byte other than '*', with a CR LF at or after the scan
\* position, the bytes up to the first space of the line (the whole line
\* when it has no space) are recorded and the scan goes on just after the
\* CR LF; with no CR LF, the scan stops and records nothing.
C5_InlineAlwaysRecorded ==
    [][AtInline => IF LineEnd # None THEN RecordsLine(Word) ELSE StopsScan]_vars

\* C5 as amended: the line is recorded as stated when its first word is not
\* empty; when the line is empty or begins with a space, or when no CR LF
\* follows, the scan stops there and records nothing.
C5_InlineFirstWord ==
    [][AtInline =>
          IF LineEnd # None /\ FirstSpace(Line) > 0
          THEN RecordsLine(Word) ELSE StopsScan]_vars

\* C5 witness: an inline command has been recorded and the scan has then
\* stopped at a line without a first word although a CR LF follows.
C5_Witness ==
    /\ spc = "done"
    /\ Len(frames) = 2
    /\ frames[1].k = "inline"
    /\ commands = <<NameOf(frames[1])>>
    /\ pos = FrameEnd(frames, 1)
    /\ pos < Len(buf)
    /\ buf[pos + 1] # "*"
    /\ find_crlf(From(buf, pos)) # None

\* The index and slice operations of parse_commands and of the functions it
\* calls, each as the pair <<lo, hi>> of the range buf[lo..hi] it takes
\* (buf[i] is the range <<i, i + 1>>, buf[lo..] the range <<lo, len>>).
\* Rust panics on a range unless 0 <= lo <= hi <= len.

\* parse_integer(&buf[a..]): the slice handed over (lines 28, 42, 69) and
\* the slice of the digits (line 120).
IntegerAccesses(bytes, a) ==
    LET crlf_pos == find_crlf(From(bytes, a))
    IN  {<<a, Len(bytes)>>} \cup
        (IF crlf_pos = None THEN {} ELSE {<<a, a + crlf_pos>>})

\* parse_inline_command(&buf[a..]): the slice handed over (line 19), the
\* line (line 101) and its first word (line 113).
InlineAccesses(bytes, a) ==
    LET crlf_pos == find_crlf(From(bytes, a))
        line     == Slice(From(bytes, a), 0, crlf_pos)
        cmd_end  == FirstSpace(line)
    IN  {<<a, Len(bytes)>>} \cup
        (IF crlf_pos = None THEN {}
         ELSE {<<a, a + crlf_pos>>} \cup
              (IF NoFirstWord(cmd_end) THEN {} ELSE {<<a, a + cmd_end>>}))

RECURSIVE ElementAccesses(_, _, _)
\* The loop "for _ in 1..array_len" (lines 61-92), n iterations left.
ElementAccesses(bytes, at, n) ==
    IF n <= 0 \/ at >= Len(bytes) THEN {}
    ELSE {<<at, at + 1>>} \cup
         (IF bytes[at + 1] = "$" THEN
              LET r == parse_integer(From(bytes, at + 1))
                  p == at + 1 + r.consumed
              IN  IntegerAccesses(bytes, at + 1) \cup
                  (IF ~r.ok THEN {}
                   ELSE IF r.num >= 0 THEN
                       IF BulkIncomplete(p, r.num, Len(bytes)) THEN {}
                       ELSE ElementAccesses(bytes, p + r.num + 2, n - 1)
                   ELSE ElementAccesses(bytes, p, n - 1))
          ELSE IF bytes[at + 1] \in {"+", "-", ":"} THEN
              LET end == find_crlf(From(bytes, at + 1))
              IN  {<<at + 1, Len(bytes)>>} \cup
                  (IF end # None
                   THEN ElementAccesses(bytes, at + 1 + end + 2, n - 1) ELSE {})
          ELSE {})

\* Lines 33-58, at being the position just after the array header.
ArrayAccesses(bytes, at, array_len) ==
    IF array_len <= 0 \/ at >= Len(bytes) THEN {}
    ELSE {<<at, at + 1>>} \cup
         (IF bytes[at + 1] # "$" THEN {}
          ELSE LET r == parse_integer(From(bytes, at + 1))
                   p == at + 1 + r.consumed
               IN  IntegerAccesses(bytes, at + 1) \cup
                   (IF ~r.ok \/ r.num < 0 \/ BulkIncomplete(p, r.num, Len(bytes))
                    THEN {}
                    ELSE {<<p, p + r.num>>} \cup
                         ElementAccesses(bytes, p + r.num + 2, array_len - 1)))

\* One iteration of "while pos < buf.len()" from at (at < Len(buf) holds).
Accesses(bytes, at) ==
    {<<at, at + 1>>} \cup
    (IF bytes[at + 1] # "*" THEN InlineAccesses(bytes, at)
     ELSE LET r == parse_integer(From(bytes, at + 1))
          IN  IntegerAccesses(bytes, at + 1) \cup
              (IF ~r.ok THEN {}
               ELSE ArrayAccesses(bytes, at + 1 + r.consumed, r.num)))

\* C24: on every buffer, truncated, malformed and empty ones included,
\* parse_commands reads nothing outside the buffer: the scan position stays
\* within 0..len, every index and slice operation of an iteration takes a
\* range within the buffer, and the bytes-consumed value returned is within
\* 0..len.
C24_ScanStaysInBuffer ==
    /\ 0 <= pos /\ pos <= Len(buf)
    /\ 0 <= consumed /\ consumed <= Len(buf)
    /\ (spc = "scan" /\ pos < Len(buf)) =>
          \A a \in Accesses(buf, pos) :
              0 <= a[1] /\ a[1] <= a[2] /\ a[2] <= Len(buf)
    /\ spc = "done" => consumed = parse_commands(buf).consumed

\* C24 witness: the scan of a buffer whose last frame is truncated has read
\* two names and returned from inside the element loop, short of the end of
\* the buffer, with 0 bytes consumed.
C24_Witness ==
    /\ spc = "done"
    /\ cut > 0
    /\ Len(commands) = 2
    /\ 0 < pos /\ pos < Len(buf)
    /\ consumed = 0

RECURSIVE IterationsUpTo(_, _, _)
\* The number of iterations "while pos < buf.len()" makes from at, counted
\* up to n.
IterationsUpTo(bytes, at, n) ==
    IF n = 0 \/ at >= Len(bytes) THEN 0
    ELSE LET s == ScanStep(bytes, at, <<>>)
         IN  IF s.ctl = "next" THEN 1 + IterationsUpTo(bytes, s.pos, n - 1)
             ELSE 1

\* The iteration at the scan position reads an array header with a
\* count <= 0, or the header of an array whose first element is a null bulk
\* string.
AtEmptyArray ==
    /\ spc = "scan" /\ pos < Len(buf) /\ buf[pos + 1] = "*"
    /\ LET r == parse_integer(From(buf, pos + 1))
       IN  r.ok /\ r.num <= 0

AtNullFirstArray ==
    /\ spc = "scan" /\ pos < Len(buf) /\ buf[pos + 1] = "*"
    /\ LET r == parse_integer(From(buf, pos + 1))
           p == pos + 1 + r.consumed
       IN  /\ r.ok /\ r.num > 0
           /\ p < Len(buf) /\ buf[p + 1] = "$"
           /\ LET q == parse_integer(From(buf, p + 1)) IN q.ok /\ q.num < 0

\* C25: parse_commands terminates on every buffer: an iteration of the
\* outer loop that does not stop the scan ends with a greater scan
\* position, the iterations for an array with count <= 0 and for a null
\* first bulk string being such iterations; the loop makes at most
\* len(buffer) iterations, and at most len(buffer) names are returned.
C25_ScanTerminates ==
    /\ [](/\ IterationsUpTo(buf, 0, Len(buf) + 1) <= Len(buf)
          /\ Len(commands) <= Len(buf)
          /\ Len(parse_commands(buf).commands) <= Len(buf))
    /\ [][/\ (spc = "scan" /\ spc' = "scan") => pos' > pos
          /\ (AtEmptyArray \/ AtNullFirstArray) => (spc' = "scan" /\ pos' > pos)]_vars

\* C25 witness: the scan has gone on after an unsupported element lead byte
\* and after an array with count 0 and has come to the end of the buffer,
\* in three iterations.
C25_Witness ==
    /\ spc = "done"
    /\ frames = <<Array(<<Bulk(<<"A">>), Boolean(<<"t">>)>>), Array(<<>>)>>
    /\ cut = 0
    /\ pos = Len(buf)
    /\ Len(commands) = 2
    /\ IterationsUpTo(buf, 0, Len(buf) + 1) = 3

\* ------------------------------------------------------------------------
\* Properties of Stats (checked under SpecStats)
\* ------------------------------------------------------------------------

\* The name written in capitals.
InCapitals(name) == [i \in 1..Len(name) |-> UpperChar(name[i])]

\* The number of record_command calls so far whose name, in capitals, is key.
Tally(key) == Cardinality({i \in 1..Len(log) : InCapitals(log[i]) = key})

\* The keys a count can be asked for.
Keys == DOMAIN counts \cup {InCapitals(log[i]) : i \in 1..Len(log)}

\* No call of record_command is in progress.
Quiescent == \A c \in Conns : rpc[c] = "idle"

\* C6: whenever the calls made so far on a fresh Stats have all returned,
\* total() is the number of calls and the table maps each key to the number
\* of calls whose name uppercases to it, every key being in upper case;
\* a call's table update adds one to the count of exactly one key, the
\* uppercased name, and changes no other; get, GET and Get give the single
\* key GET with count 3 and a total of 3.
C6_CountsPerUppercasedName ==
    /\ [](Quiescent =>
            /\ total = Len(log)
            /\ \A key \in Keys : CountOf(key) = Tally(key)
            /\ \A key \in DOMAIN counts : key = InCapitals(key))
    /\ []((Quiescent /\ log = <<getLow, GET, <<"G", "e", "t">>>>) =>
            (total = 3 /\ counts = [key \in {GET} |-> 3]))
    /\ [][\A c \in Conns :
            (rpc[c] = "locked" /\ rpc'[c] = "idle") =>
                LET key == InCapitals(Head(pending[c]))
                IN  /\ key \in DOMAIN counts'
                    /\ counts'[key] = CountOf(key) + 1
                    /\ \A k \in DOMAIN counts' \ {key} : counts'[k] = CountOf(k)]_vars

\* C6 witness: get, GET and Get have been recorded and the calls returned.
C6_Witness ==
    /\ Quiescent
    /\ log = <<getLow, GET, <<"G", "e", "t">>>>
    /\ total = 3
    /\ CountOf(GET) = 3

\* The calls that have added to the total and not yet updated the table
\* entry of key.
InFlight(key) ==
    Cardinality({c \in Conns : rpc[c] \in {"added", "locked"}
                               /\ InCapitals(Head(pending[c])) = key})

\* C7: under every interleaving of the tasks' record_command calls no update
\* is lost: the total is the number of calls that have started, each count is
\* the number of calls with that uppercased name that have updated the table,
\* and once every call has returned the total is the number of calls made
\* and each count the number of calls made with that name.
C7_NoLostUpdate ==
    /\ total = Len(log)
    /\ \A key \in Keys : CountOf(key) = Tally(key) - InFlight(key)
    /\ (\A c \in Conns : pending[c] = <<>>) =>
          \A key \in Keys : CountOf(key) = Tally(key)

\* C7 witness: two tasks are inside record_command for the same key at once,
\* one holding the lock and one waiting for it, after an earlier call for
\* that key has returned.
C7_Witness ==
    \E c, d \in Conns :
        /\ c # d
        /\ rpc[c] = "locked"
        /\ rpc[d] = "added"
        /\ InCapitals(Head(pending[c])) = InCapitals(Head(pending[d]))
        /\ CountOf(InCapitals(Head(pending[c]))) >= 1

RECURSIVE SumOver(_, _)
\* The sum of the counts of the keys in S.
SumOver(f, S) ==
    IF S = {} THEN 0
    ELSE LET k == CHOOSE x \in S : TRUE IN f[k] + SumOver(f, S \ {k})

\* The sum of all per-command counts.
SumCounts == SumOver(counts, DOMAIN counts)

\* The calls that have incremented the total and not yet updated the table.
CallsInFlight == Cardinality({c \in Conns : rpc[c] \in {"added", "locked"}})

\* C23: under every interleaving of record_command calls the sum of the
\* counts is at most the total, the difference being the number of calls
\* that have incremented the total and not yet updated the table; the two
\* are equal whenever no call is in progress; and neither the total nor any
\* count ever decreases.
C23_SumOfCountsAndTotal ==
    /\ [](/\ SumCounts <= total
          /\ total - SumCounts = CallsInFlight
          /\ Quiescent => SumCounts = total)
    /\ [][/\ total' >= total
          /\ \A key \in DOMAIN counts :
                key \in DOMAIN counts' /\ counts'[key] >= counts[key]]_vars

\* C23 witness: one call has returned and two are in flight, one holding
\* the lock on the entry it is about to update and one waiting; the total
\* is 3 and the counts sum to 1.
C23_Witness ==
    \E c, d \in Conns :
        /\ rpc[c] = "locked"
        /\ rpc[d] = "added"
        /\ total = 3
        /\ SumCounts = 1
        /\ CallsInFlight = 2

\* Of the partial frame at the end of the buffer, the array header and the
\* header of the first bulk string, which declares its length, are in the
\* buffer.
FirstBulkDeclared ==
    LET f == frames[Len(frames)]
        hdr == Len(<<"*">> \o Dec(Len(f.e)) \o CRLF)
        blk == Len(<<"$">> \o Dec(Len(f.e[1].s)) \o CRLF)
    IN  Len(Enc(f)) - cut >= hdr + blk

\* C19: for a buffer of complete command frames followed by an array whose
\* first bulk string declares a length and is not entirely present, the
\* scan returns the names of the complete frames only, and a bytes-consumed
\* value that does not go past the offset at which the partial array
\* begins.
C19_IncompleteFirstBulkNotConsumed ==
    (spc = "done" /\ PartialLast /\ FirstBulkDeclared /\ ~FirstBulkPresent)
        => /\ commands = NamesBeforePartial
           /\ consumed <= FrameStart(frames, Len(frames))

\* An array whose first element is a null bulk string and whose other
\* elements are of the kinds the scanner steps over.
NullFirst(f) ==
    /\ f.k = "array"
    /\ Len(f.e) >= 1
    /\ f.e[1].k = "null"
    /\ PlainArgs(f)

\* C20: for a buffer of complete frames, each a command frame or an array
\* whose first element is a null bulk string, the names returned are those
\* of the command frames, in order: an array with a null first element
\* gives no name, neither from its first element nor from the others.
C20_NullFirstArraySkipped ==
    ( /\ spc = "done"
      /\ cut = 0
      /\ \A i \in 1..Len(frames) : IsCommandFrame(frames[i]) \/ NullFirst(frames[i]) )
        => commands = NamesInOrder(SelectSeq(frames, IsCommandFrame))

\* The first frame of the buffer with an element, after its name, whose lead
\* byte is none of '$', '+', '-', ':' (0 when there is none).
FirstUnsupported ==
    LET S == {i \in 1..Len(frames) : ~PlainArgs(frames[i])}
    IN  IF S = {} THEN 0 ELSE CHOOSE i \in S : \A j \in S : i <= j

\* C21: while the elements after the name of an array are skipped, an
\* element whose lead byte is none of '$', '+', '-', ':' ends the scan: for
\* a buffer of complete frames carrying a name, the names returned are those
\* of the frames up to and including the first frame with such an element,
\* and no name is taken from the bytes at or after that element.
C21_UnsupportedElementStopsScan ==
    (spc = "done" /\ AllComplete /\ FirstUnsupported > 0)
        => commands = NamesInOrder(SubSeq(frames, 1, FirstUnsupported))

\* ------------------------------------------------------------------------
\* Properties of the proxy process (checked under Spec)
\* ------------------------------------------------------------------------

\* s is an in-order prefix of t.
IsPrefix(s, t) == Len(s) <= Len(t) /\ SubSeq(t, 1, Len(s)) = s

\* Connection c is inside the loop of proxy_connection, and between two
\* rounds of it.
InLoop(c) == ppc[c] \in {"select", "record", "write_up", "write_client"}
AtRace(c) == ppc[c] = "select"

\* proxy_connection has left its loop for connection c.
LoopLeft(c) == ppc[c] \in {"flush_client", "flush_upstream", "returned"}

\* C1: relay fidelity.  For every connection, at every moment, the bytes
\* written to the upstream are an in-order prefix of all the bytes client
\* reads have returned, and the bytes written to the client are an in-order
\* prefix of all the bytes upstream reads have returned; each time a write
\* has succeeded and the loop is back at its race, and from then until the
\* next read, the two are equal, whatever parse_commands found in the bytes.
C1_RelayFidelity ==
    \A c \in Conns :
       /\ IsPrefix(uwr[c], crd[c])
       /\ IsPrefix(cwr[c], urd[c])
       /\ AtRace(c) => uwr[c] = crd[c] /\ cwr[c] = urd[c]
       /\ ppc[c] = "write_client" => uwr[c] = crd[c]
       /\ ppc[c] \in {"record", "write_up"} => cwr[c] = urd[c]

\* C1, witness: a connection has relayed two client reads, the first of them
\* a cut-off frame in which the parser found nothing, and is back at the
\* race with everything forwarded and the one command recorded.
C1_Witness ==
    \E c \in Conns :
       /\ AtRace(c)
       /\ crd[c] = <<"*", "a", "CR", "LF">>
       /\ uwr[c] = crd[c]
       /\ total = 1

\* C8: proxy_connection leaves its loop on the first zero-length read and on
\* the first failed read or write (one line is logged, and none while the
\* loop runs); once the loop is left nothing more is read or written on
\* either side; the client is flushed, then the upstream, each once and
\* whatever the flush returns, and then proxy_connection has returned and
\* the connection is closed; none of these steps changes what main does.
C8_LoopEndsOnce ==
    /\ [](\A c \in Conns :
            /\ InLoop(c) => events[c] = <<>> /\ flushes[c] = <<>>
            /\ LoopLeft(c) => Len(events[c]) = 1
            /\ ppc[c] = "flush_client" => flushes[c] = <<>>
            /\ ppc[c] = "flush_upstream" => flushes[c] = <<"client">>
            /\ ppc[c] = "returned" =>
                  flushes[c] = <<"client", "upstream">> /\ cst[c] = "Closed")
    /\ [][\A c \in Conns :
            /\ InLoop(c) /\ events'[c] # events[c] => LoopLeft(c)'
            /\ LoopLeft(c) =>
                  /\ <<crd[c], uwr[c], urd[c], cwr[c], events[c]>>' =
                        <<crd[c], uwr[c], urd[c], cwr[c], events[c]>>
                  /\ ~InLoop(c)'
            /\ LoopLeft(c) /\ ppc'[c] # ppc[c] => mpc' = mpc]_vars

\* C8, witness: a connection that had relayed bytes met a failure, and
\* proxy_connection has returned after both flushes.
C8_Witness ==
    \E c \in Conns :
       /\ ppc[c] = "returned"
       /\ events[c] = <<"error">>
       /\ uwr[c] # <<>>
       /\ flushes[c] = <<"client", "upstream">>

\* The stages an accepted socket goes through when nothing fails.
FullPath(plain) ==
    IF plain
    THEN <<"Accepted", "UpstreamConnecting", "Proxying", "Closed">>
    ELSE <<"Accepted", "TlsHandshaking", "UpstreamConnecting", "Proxying", "Closed">>

\* The stages of a socket whose handshake or upstream connect failed.
FailedPaths(plain) ==
    IF plain
    THEN {<<"Accepted", "UpstreamConnecting", "Closed">>}
    ELSE {<<"Accepted", "TlsHandshaking", "Closed">>,
          <<"Accepted", "TlsHandshaking", "UpstreamConnecting", "Closed">>}

\* The stage name occurs in the path p.
Visited(p, stage) == \E i \in 1..Len(p) : p[i] = stage

\* C9: the stages of every accepted socket are a prefix of Accepted,
\* [TlsHandshaking,] UpstreamConnecting, Proxying, Closed, or one of the
\* paths that go from TlsHandshaking or UpstreamConnecting straight to
\* Closed; TlsHandshaking is there exactly when the listener is a TLS one;
\* the straight paths are those of the connections whose handshake or
\* connect failed, which never are in Proxying; and proxy_connection runs
\* only in Proxying.
C9_Lifecycle ==
    \A c \in Conns :
       /\ \/ IsPrefix(path[c], FullPath(no_tls))
          \/ path[c] \in FailedPaths(no_tls)
       /\ cst[c] = (IF path[c] = <<>> THEN "Free" ELSE path[c][Len(path[c])])
       /\ Len(path[c]) >= 2 => (Visited(path[c], "TlsHandshaking") <=> ~no_tls)
       /\ path[c] \in FailedPaths(no_tls) <=> (ppc[c] = "none" /\ events[c] = <<"error">>)
       /\ Visited(path[c], "Proxying") <=> ppc[c] # "none"
       /\ cst[c] = "Proxying" <=> (InLoop(c) \/ ppc[c] \in {"flush_client", "flush_upstream"})

\* C9, witness: behind a TLS listener one socket has gone through all five
\* stages and another was closed by a failed handshake.
C9_Witness ==
    /\ ~no_tls
    /\ \E c, d \in Conns :
          /\ path[c] = FullPath(FALSE)
          /\ path[d] = <<"Accepted", "TlsHandshaking", "Closed">>

\* What the program holds for connection c.
ConnState(c) ==
    <<cst[c], path[c], ppc[c], client_buf[c], upstream_buf[c], wrote[c],
      crd[c], uwr[c], urd[c], cwr[c], events[c], flushes[c],
      rpc[c], tmp[c], pending[c]>>

\* The step logs a failure of connection c.
FailureStep(c) ==
    /\ Len(events'[c]) = Len(events[c]) + 1
    /\ events'[c][Len(events'[c])] = "error"

\* The number of failures logged for connection c.
Failures(c) == Cardinality({i \in 1..Len(events[c]) : events[c][i] = "error"})

\* C10: a step in which a connection fails (handshake, upstream connect,
\* read or write) closes that connection or takes it out of its loop on the
\* way to being closed, leaves main where it was (the accept loop keeps
\* running), leaves the Stats and all that the program holds for every
\* other connection as they were; and no connection ever has more than one
\* failure logged, a connection closed without proxying having exactly one.
C10_FailureIsolated ==
    /\ [][\A c \in Conns :
            FailureStep(c) =>
               /\ cst'[c] = "Closed" \/ LoopLeft(c)'
               /\ mainVars' = mainVars
               /\ statsVars' = statsVars
               /\ \A d \in Conns \ {c} : ConnState(d)' = ConnState(d)]_vars
    /\ [](\A c \in Conns :
            /\ Failures(c) <= 1
            /\ cst[c] = "Closed" /\ ppc[c] = "none" => Failures(c) = 1)

\* C10, witness: one connection failed to connect upstream and is closed
\* with one failure logged, while the accept loop runs and another
\* connection, accepted before it, has relayed a command since.
C10_Witness ==
    /\ mpc = "accepting"
    /\ \E c, d \in Conns :
          /\ c < d
          /\ path[d] = <<"Accepted", "UpstreamConnecting", "Closed">>
          /\ events[d] = <<"error">>
          /\ AtRace(c)
          /\ uwr[c] = <<"a", "CR", "LF">>
          /\ events[c] = <<>>

\* Connection c is suspended at an await of its task: the TLS handshake,
\* the upstream connect, the race of the two reads, a write_all, a flush.
Suspended(c) ==
    \/ cst[c] \in {"TlsHandshaking", "UpstreamConnecting"}
    \/ ppc[c] \in {"select", "write_up", "write_client", "flush_client", "flush_upstream"}

\* Connection d can take the next step of the record_command call it is in.
CanRecord(d) ==
    \/ ENABLED ProxyFetchAdd(d)
    \/ ENABLED ProxyLockEntry(d)
    \/ ENABLED ProxyStoreReturn(d)

\* C11: a connection suspended on I/O, however long, blocks nothing.  It
\* never holds the Stats lock; while it is suspended the accept loop can
\* accept (when a slot is left), and every other connection can take its
\* next step: start its handshake or connect, read from either side, write
\* on, flush, and go on with record_command, unless the lock is held by a task
\* that is itself inside record_command and can release it.
C11_StalledBlocksNothing ==
    [](\A c \in Conns :
          Suspended(c) =>
             /\ lock # c
             /\ mpc = "accepting" /\ (\E d \in Conns : cst[d] = "Free") => ENABLED Accept
             /\ \A d \in Conns \ {c} :
                   Running =>
                      /\ cst[d] = "Accepted" => ENABLED TaskStart(d)
                      /\ ppc[d] = "select" /\ reads < MaxReads =>
                            ENABLED ClientReadData(d) /\ ENABLED UpstreamReadData(d)
                      /\ ppc[d] = "write_up" => ENABLED WriteUpstream(d)
                      /\ ppc[d] = "write_client" => ENABLED WriteClient(d)
                      /\ ppc[d] = "flush_client" => ENABLED FlushClient(d)
                      /\ ppc[d] = "flush_upstream" => ENABLED FlushUpstream(d)
                      /\ ppc[d] = "record" =>
                            \/ CanRecord(d)
                            \/ /\ lock \in Conns \ {c, d}
                               /\ ~Suspended(lock)
                               /\ ENABLED ProxyStoreReturn(lock))

\* C11, witness: while one connection is suspended in its TLS handshake,
\* another is inside record_command holding the Stats lock, and can go on
\* to release it.
C11_Witness ==
    /\ mpc = "accepting"
    /\ \E c, d \in Conns :
          /\ cst[c] = "TlsHandshaking"
          /\ ppc[d] = "record"
          /\ rpc[d] = "locked"
          /\ lock = d
          /\ ENABLED ProxyStoreReturn(d)

\* The listening socket is open: bind has succeeded and main has not
\* returned.
SocketOpen == mpc \in {"bound", "accepting", "stopping"}

\* C12: with a TLS listener and no usable certificate and key (not given,
\* or given and not loadable), the listening socket is never open and no
\* connection is ever accepted.
C12_NoSocketWithoutMaterial ==
    ~no_tls /\ material # "ok" =>
       /\ ~SocketOpen
       /\ \A c \in Conns : cst[c] = "Free"

\* The shutdown signal has been received.
Signalled == mpc \in {"stopping", "exit_ok"}

\* C13: once the shutdown signal is received no further connection is
\* accepted; the summary is not printed before the signal, is printed once
\* when main has returned, and never twice; main can print it as soon as
\* the Stats lock is free, whatever stage the connections are in; and main
\* does return.
C13_ShutdownNotDrained ==
    /\ [][Signalled => \A c \in Conns : cst[c] = "Free" => cst'[c] = "Free"]_vars
    /\ [](mpc \in {"start", "run_server", "bound", "accepting", "stopping"} => summaries = 0)
    /\ [](mpc = "exit_ok" => summaries = 1)
    /\ [](mpc = "stopping" /\ lock = NoTask => ENABLED PrintSummary)
    /\ (mpc = "stopping" ~> mpc = "exit_ok")

\* C13, witness: main has printed the summary and returned while a
\* connection was in Proxying with bytes read from the client and not yet
\* written on, and a slot for a further connection was left.
C13_Witness ==
    /\ mpc = "exit_ok"
    /\ summaries = 1
    /\ \E c, d \in Conns :
          /\ cst[c] = "Proxying"
          /\ ppc[c] = "write_up"
          /\ cst[d] = "Free"

\* Stats::new has run: parse_args, which comes before it, did not fail.
StatsCreated == mpc # "start" /\ (no_tls \/ material # "absent")

\* C17: whenever the process has ended after the Stats were created, by the
\* shutdown signal or by a failure of the server (bind, TLS material,
\* accept), the summary has been printed.
C17_SummaryOnEveryExit ==
    StatsCreated /\ mpc \in {"exit_ok", "exit_err"} => summaries = 1

\* C18: each time the loop is at its race both buffers are empty; while a
\* client read is handled client_buf holds the bytes of that read and no
\* others (the bytes read before it are exactly those already written to
\* the upstream), the names being recorded are those parse_commands finds
\* in these bytes, and upstream_buf is empty; likewise while an upstream
\* read is handled.
C18_FrameBuffers ==
    \A c \in Conns :
       /\ AtRace(c) => client_buf[c] = <<>> /\ upstream_buf[c] = <<>> /\ wrote[c] = 0
       /\ ppc[c] \in {"record", "write_up"} =>
             /\ client_buf[c] # <<>>
             /\ upstream_buf[c] = <<>>
             /\ crd[c] = Slice(uwr[c], 0, Len(uwr[c]) - wrote[c]) \o client_buf[c]
       /\ ppc[c] = "record" =>
             LET cmds == parse_commands(client_buf[c]).commands
             IN  /\ wrote[c] = 0
                 /\ Len(pending[c]) <= Len(cmds)
                 /\ pending[c] = SubSeq(cmds, Len(cmds) - Len(pending[c]) + 1, Len(cmds))
       /\ ppc[c] = "write_client" =>
             /\ upstream_buf[c] # <<>>
             /\ client_buf[c] = <<>>
             /\ urd[c] = Slice(cwr[c], 0, Len(cwr[c]) - wrote[c]) \o upstream_buf[c]

\* C18, witness: a read returned the first byte of an array header, of
\* which the parser consumed nothing; it was forwarded and the buffer
\* cleared, and the command of the next read was parsed and recorded on
\* its own.
C18_Witness ==
    \E c \in Conns :
       /\ AtRace(c)
       /\ client_buf[c] = <<>>
       /\ crd[c] = <<"*", "a", "CR", "LF">>
       /\ log = << <<"a">> >>

\* A step of the upstream arm of connection c: its upstream read returns
\* bytes, or the bytes read are being written to the client.
UpstreamEvent(c) ==
    \/ urd'[c] # urd[c]
    \/ ppc[c] = "write_client" /\ (cwr'[c] # cwr[c] \/ ppc'[c] # ppc[c])

\* C22: an upstream read is pure relay: the steps that handle bytes read
\* from the upstream hand no name to record_command and leave the total,
\* every count, the client frame buffer and the bytes already written
\* upstream as they are; the total and the counts change only in a
\* record_command call of a connection, and a connection comes to its
\* record_command calls only by a client read.
C22_UpstreamReadPureRelay ==
    [][ /\ \A c \in Conns :
              UpstreamEvent(c) =>
                  /\ total' = total
                  /\ counts' = counts
                  /\ pending'[c] = pending[c]
                  /\ rpc'[c] = rpc[c]
                  /\ client_buf'[c] = client_buf[c]
                  /\ uwr'[c] = uwr[c]
        /\ (total' # total \/ counts' # counts) =>
              \E c \in Conns : ppc[c] = "record" /\ rpc'[c] # rpc[c]
        /\ \A c \in Conns :
              (ppc[c] # "record" /\ ppc'[c] = "record") =>
                  (ppc[c] = "select" /\ crd'[c] # crd[c]) ]_vars

\* C22 witness: a connection has recorded one command of its client, written
\* it upstream, and then relayed a reply of the upstream to the client; the
\* Stats show the one command.
C22_Witness ==
    \E c \in Conns :
        /\ ppc[c] = "select"
        /\ uwr[c] = <<"a", "CR", "LF">>
        /\ urd[c] = <<"+">>
        /\ cwr[c] = <<"+">>
        /\ total = 1
        /\ CountOf(<<"A">>) = 1

\* ------------------------------------------------------------------------
\* Properties of one connection relaying whole frames (checked under
\* SpecOrder)
\* ------------------------------------------------------------------------

\* C14: the names passed to record_command, in call order, are at every
\* moment a prefix of the command names in the order of their frames in the
\* client byte stream, within one read and across reads, and are all of
\* them once the loop over the names of a read is over.
C14_RecordedInStreamOrder ==
    /\ IsPrefix(log, NamesInOrder(frames))
    /\ ppc[1] \in {"write_up", "select"} => log = NamesInOrder(frames)

\* C14, witness: two reads have been handled, the first with two frames of
\* different names, and all their names are recorded.
C14_Witness ==
    /\ reads = 2
    /\ ppc[1] = "select"
    /\ Len(frames) >= 3
    /\ log[1] # log[2]
    /\ Len(log) = Len(frames)
    /\ Len(client_buf[1]) = 0

\* ------------------------------------------------------------------------
\* Properties of one connection over bounded transports (checked under
\* SpecPipes)
\* ------------------------------------------------------------------------

\* The proxy is inside write_all to the upstream and the transport takes no
\* byte.
ProxyBlockedWritingUp == ppc[1] = "write_up" /\ ~ENABLED PipeWriteUpstream

\* The upstream is writing a reply and its transport takes no byte; it
\* reads nothing until the proxy has read.
UpstreamBlockedWriting == owed > 0 /\ ~ENABLED UpstreamPeerWrite

\* The proxy waits for the upstream to read and the upstream waits for the
\* proxy to read: neither ever goes on.
CircularWait == ProxyBlockedWritingUp /\ UpstreamBlockedWriting

\* C15: the proxy is never blocked in a write to the upstream while the
\* upstream, with its bytes to the proxy unread, is itself blocked until the
\* proxy reads them.
C15_NoCircularWait == ~(CircularWait /\ u2p # <<>>)

\* C16: at the race a read is taken as soon as its side has bytes, whether
\* or not the other side has any; bytes that have arrived on either side
\* are eventually read by the proxy, however often the other side is
\* ready; and after a read is handled the loop is back at the race.
C16_RaceFairNoWaiting ==
    /\ [](ppc[1] = "select" /\ c2p # <<>> => ENABLED PipeClientRead)
    /\ [](ppc[1] = "select" /\ u2p # <<>> => ENABLED PipeUpstreamRead)
    /\ (u2p # <<>> ~> u2p = <<>>)
    /\ (c2p # <<>> ~> c2p = <<>>)
    /\ (ppc[1] \in {"record", "write_up", "write_client"} ~> ppc[1] = "select")

====
